---- MODULE Spec2Model ----
(***************************************************************************)
(* Model of the macro dashboard scripts of Stock-Agent: the cached fetch   *)
(* step (get_macro_data / get_rates_data behind st.cache_data(ttl=3600)),  *)
(* the derivation step (process_data / process_rates_data) and the main    *)
(* render block of each of the five scripts.                               *)
(*                                                                         *)
(* A table is abstracted to: its set of column names, the number of rows   *)
(* left after the anchor drop, one representative row of the three         *)
(* liquidity inputs, the lookback it was fetched with and the time of the  *)
(* fetch batch.  Amounts in trillions are kept as integers counting        *)
(* millionths of a trillion, so the unit divisions of the source are exact.*)
(***************************************************************************)
EXTENDS Integers, Sequences, FiniteSets, TLC

\* ------------------------------------------------------------------------
\* Bounds of the model
\* ------------------------------------------------------------------------
MaxFail == 1
Step == 1800
MaxTime == 3600
MaxCycles == 3
MaxLen == 14
LongLen == 360

\* ------------------------------------------------------------------------
\* Program constants
\* ------------------------------------------------------------------------
TTL == 3600
YoyLag == 12
SupercoreLag == 252
months_to_predict == 6

Scripts == {"cpi_agent", "cpi_agent_v2_1", "rate_agent", "rate_agent_v2", "rate_agent_v3"}
CpiScripts == {"cpi_agent", "cpi_agent_v2_1"}
RateScripts == Scripts \ CpiScripts

Sessions == {"s1", "s2"}
NoSession == "none"

\* years_back values tried on the sidebar slider (3..15 / 3..20, default 5);
\* the CPI scripts' cached function takes no argument: key 0.
Lookbacks == {3, 5}
NoArg == 0

\* Values of the API key text input: left empty, or one of two keys.
ApiKeys == {"", "key", "other"}

\* Who uses the app in a behaviour: one browser session that moves the
\* lookback slider between two positions, or two sessions that leave it at
\* its default.
Setups ==
  { [sessions |-> {"s1"}, lookbacks |-> Lookbacks, keys |-> {"", "key"}],
    [sessions |-> Sessions, lookbacks |-> {5}, keys |-> {"", "key"}],
    [sessions |-> {"s1"}, lookbacks |-> {5}, keys |-> {"key", "other"}] }

\* ------------------------------------------------------------------------
\* Static configuration: series code -> display name, per script
\* ------------------------------------------------------------------------
tickers(s) ==
  CASE s = "cpi_agent" ->
         << <<"CPIAUCSL", "CPI (Headline)">>, <<"CPILFESL", "CPI (Core)">>,
            <<"PPIFIS", "PPI (Final Demand)">>, <<"PCEPI", "PCE (Headline)">>,
            <<"STICKCPIM159SFRBATL", "Sticky CPI">> >>
    [] s = "cpi_agent_v2_1" ->
         << <<"CPIAUCSL", "CPI (Headline)">>, <<"CPILFESL", "CPI (Core)">>,
            <<"PPIFIS", "PPI (Final Demand)">>, <<"PCEPI", "PCE (Headline)">>,
            <<"CUSR0000SAD", "Supercore (Svcs ex Shelter)">>,
            <<"CUSR0000SETA02", "Used Cars">>, <<"CUSR0000SAH1", "CPI Shelter">>,
            <<"CHNTOT", "China Import Prices">>,
            <<"STICKCPIM159SFRBATL", "Sticky CPI">>, <<"T5YIE", "5Y Breakeven">>,
            <<"DFII10", "10Y Real Yield">> >>
    [] s = "rate_agent" ->
         << <<"DGS10", "US 10Y Yield">>, <<"DGS2", "US 2Y Yield">>,
            <<"FEDFUNDS", "Fed Funds Rate">>, <<"DFII10", "10Y Real Yield">>,
            <<"T10Y3M", "10Y-3M Spread">>, <<"BAMLH0A0HYM2", "High Yield Spread">>,
            <<"NFCI", "Financial Conditions">>, <<"SP500", "S&P 500">> >>
    [] s = "rate_agent_v2" ->
         << <<"DGS10", "US 10Y Yield">>, <<"DGS2", "US 2Y Yield">>,
            <<"FEDFUNDS", "Fed Funds Rate">>, <<"DFII10", "10Y Real Yield">>,
            <<"T10Y3M", "10Y-3M Spread">>, <<"WALCL", "Fed Total Assets">>,
            <<"WTREGEN", "TGA Account">>, <<"RRPONTSYD", "Reverse Repo">>,
            <<"BAMLH0A0HYM2", "High Yield Spread">>,
            <<"NFCI", "Financial Conditions">>, <<"SP500", "S&P 500">> >>
    [] s = "rate_agent_v3" ->
         << <<"DGS10", "US 10Y Yield">>, <<"DGS2", "US 2Y Yield">>,
            <<"FEDFUNDS", "Fed Funds Rate">>, <<"DFII10", "10Y Real Yield">>,
            <<"T10Y3M", "10Y-3M Spread">>, <<"DGS30", "US 30Y Yield">>,
            <<"WALCL", "Fed Total Assets">>, <<"WTREGEN", "TGA Account">>,
            <<"RRPONTSYD", "Reverse Repo">>, <<"SOFR", "SOFR Rate">>,
            <<"IORB", "IORB Rate">>, <<"TOTRESNS", "Bank Reserves">>,
            <<"CUSR0000SAD", "Supercore CPI Index">>, <<"T5YIE", "5Y Breakeven">>,
            <<"BAMLH0A0HYM2", "High Yield Spread">>,
            <<"NFCI", "Financial Conditions">>, <<"SP500", "S&P 500">> >>

\* The three liquidity series rate_agent.py fetches in one try block, in
\* the order of the calls; the other scripts have them in tickers.
liquidity(s) ==
  IF s = "rate_agent"
    THEN << <<"WALCL", "Fed Total Assets">>, <<"WTREGEN", "TGA Account">>,
            <<"RRPONTSYD", "Reverse Repo">> >>
    ELSE << >>

Range(q) == {q[i] : i \in 1..Len(q)}
Codes(s) == {p[1] : p \in Range(tickers(s)) \cup Range(liquidity(s))}
AllCodes == UNION {Codes(s) : s \in Scripts}
req_liq == {"Fed Total Assets", "TGA Account", "Reverse Repo"}

\* The anchor series of each script.
AnchorCode(s) == IF s \in CpiScripts THEN "CPIAUCSL" ELSE "DGS10"
AnchorName(s) == IF s \in CpiScripts THEN "CPI (Headline)" ELSE "US 10Y Yield"

\* ------------------------------------------------------------------------
\* Inputs: what the Series Source answers in one fetch batch
\* ------------------------------------------------------------------------
\* Series codes whose fetch is tried both ways (the anchor, an input of a
\* composite metric, a series no metric uses; for rate_agent.py the first
\* and the last call of the liquidity block); the other codes raise only
\* in a full outage.
Flaky(s) ==
  CASE s = "cpi_agent" -> {"CPIAUCSL", "PPIFIS", "PCEPI"}
    [] s = "cpi_agent_v2_1" -> {"CPIAUCSL", "PPIFIS", "CUSR0000SAD"}
    [] s = "rate_agent" -> {"DGS10", "WALCL", "RRPONTSYD", "NFCI"}
    [] s = "rate_agent_v2" -> {"DGS10", "RRPONTSYD", "NFCI"}
    [] s = "rate_agent_v3" -> {"DGS10", "RRPONTSYD", "NFCI"}

\* Sets of series codes whose fetch raises in a batch: at most MaxFail
\* codes, or every code (provider outage).
RECURSIVE FailSetsUpTo(_, _)
FailSetsUpTo(s, n) ==
  IF n = 0 THEN {{}}
  ELSE LET P == FailSetsUpTo(s, n - 1)
       IN  P \cup {S \cup {c} : S \in P, c \in Flaky(s)}
FailSets(s) == FailSetsUpTo(s, MaxFail) \cup {Codes(s)}

\* Content of the Series Source: number of rows that carry an anchor value,
\* and one row <<Fed Total Assets, TGA Account, Reverse Repo>> in the
\* series' native units (millions, millions, billions).
Samples ==
  { [rows |-> 8, liq |-> <<9000000, 700000, 500>>],
    [rows |-> 3, liq |-> <<9000000, 700000, 500>>],
    [rows |-> 0, liq |-> <<9000000, 700000, 500>>],
    [rows |-> 8, liq |-> <<1000000, 700000, 500>>] }

NoTable == [cols |-> {"<none>"}, rows |-> 0, liq |-> <<0, 0, 0>>, years |-> -1, at |-> -1]

\* ------------------------------------------------------------------------
\* The fetch step: get_macro_data / get_rates_data (function bodies)
\* ------------------------------------------------------------------------
\* for code, name in tickers.items(): try: get_series ... except: ...
LoopRequested(s) == {p[1] : p \in Range(tickers(s))}
LoopCols(s, F) == {p[2] : p \in {q \in Range(tickers(s)) : q[1] \notin F}}

\* rate_agent.py: the three liquidity get_series calls share one try block:
\* the first call that raises skips the calls after it.
RECURSIVE LiqRequested(_, _, _)
LiqRequested(q, i, F) ==
  IF i > Len(q) THEN {}
  ELSE IF q[i][1] \in F THEN {q[i][1]}
  ELSE {q[i][1]} \cup LiqRequested(q, i + 1, F)

\* liq_df is joined only when the whole try block ran through.
LiqCols(s, F) ==
  IF \E p \in Range(liquidity(s)) : p[1] \in F
    THEN {}
    ELSE {p[2] : p \in Range(liquidity(s))}

BatchRequested(s, F) == LoopRequested(s) \cup LiqRequested(liquidity(s), 1, F)
BatchCols(s, F) == LoopCols(s, F) \cup LiqCols(s, F)

\* What the except branches of the fetch step report, as <<channel, name>>:
\* cpi_agent.py and cpi_agent_v2.1.py call st.error with the display name;
\* rate_agent_v2.py prints a warning with name and code on the console;
\* rate_agent.py and rate_agent_v3.py `pass`.  The except branch of the
\* liquidity block of rate_agent.py calls st.error once, with the text of
\* the exception and no series name.
LoopReports(s, F) ==
  CASE s \in CpiScripts ->
         {<<"st.error", p[2]>> : p \in {q \in Range(tickers(s)) : q[1] \in F}}
    [] s = "rate_agent_v2" ->
         {<<"print", p[2]>> : p \in {q \in Range(tickers(s)) : q[1] \in F}}
    [] OTHER -> {}

LiqReports(s, F) ==
  IF \E p \in Range(liquidity(s)) : p[1] \in F
    THEN {<<"st.error", "liquidity block">>}
    ELSE {}

BatchReports(s, F) == LoopReports(s, F) \cup LiqReports(s, F)

\* A variant in which the cached function returns the table as it is.
FetchRaisesNever(s, F) == FALSE

\* rate_agent_v2 / v3 end the cached function with
\* df.dropna(subset=['US 10Y Yield']), a KeyError when that column is
\* missing; an empty data_frames list returns pd.DataFrame() before it.
FetchRaises(s, F) ==
  /\ s \in {"rate_agent_v2", "rate_agent_v3"}
  /\ BatchCols(s, F) # {}
  /\ AnchorName(s) \notin BatchCols(s, F)

\* The table the function body returns (when it does not raise).
FetchTable(s, F, d, y, t) ==
  [cols |-> BatchCols(s, F),
   rows |-> IF BatchCols(s, F) = {} THEN 0 ELSE d.rows,
   liq |-> d.liq,
   years |-> y,
   at |-> t]

\* ------------------------------------------------------------------------
\* The derivation step: process_data / process_rates_data
\* ------------------------------------------------------------------------
\* x / d for an amount x, in millionths of a trillion (d divides 1000000).
Tril(x, d) == x * (1000000 \div d)

\* Divisor applied to 'TGA Account': 1000 in rate_agent.py, 1000000 in
\* rate_agent_v2.py and rate_agent_v3.py.
TgaDivisor(s) == IF s = "rate_agent" THEN 1000 ELSE 1000000

\* df['Net Liquidity'] = fed - tga - rrp, for one row of inputs.
NetLiquidity(s, liq) ==
  Tril(liq[1], 1000000) - Tril(liq[2], TgaDivisor(s)) - Tril(liq[3], 1000)

\* Columns the else branch fills with np.nan (rate_agent_v2 / v3 only).
NanDefault(s, cols) ==
  IF s \in {"rate_agent_v2", "rate_agent_v3"} /\ ~(req_liq \subseteq cols)
    THEN {"Net Liquidity"}
    ELSE {}

\* Derived columns process_rates_data adds to a table with columns cols.
DerivedRates(s, cols) ==
     (IF req_liq \subseteq cols THEN {"Net Liquidity"} ELSE {})
  \cup NanDefault(s, cols)
  \cup (IF {"US 10Y Yield", "US 2Y Yield"} \subseteq cols THEN {"Curve 10Y-2Y"} ELSE {})
  \cup (IF s = "rate_agent_v3" /\ {"SOFR Rate", "IORB Rate"} \subseteq cols
          THEN {"Liquidity Stress"} ELSE {})
  \cup (IF s = "rate_agent_v3" /\ "Supercore CPI Index" \in cols
          THEN {"Supercore YoY"} ELSE {})
  \cup (IF s = "rate_agent_v3" /\ "Bank Reserves" \in cols
          THEN {"Bank Reserves Trillions"} ELSE {})

\* A variant in which the scaled amounts are written back to the inputs.
InputLiqScaled(s, liq) ==
  <<liq[1] \div 1000000, liq[2] \div TgaDivisor(s), liq[3] \div 1000>>

\* The input columns after process_rates_data: the scaled amounts are held
\* in local names (fed, tga, rrp), no input column is assigned.
InputLiq(s, liq) == liq

\* process_rates_data: rate_agent.py first does
\* df.dropna(subset=['US 10Y Yield'], how='all'), a KeyError without the
\* column.  netliq is the set holding the value of the representative row
\* (empty: missing).
process_rates_data(s, t) ==
  [raised |-> (s = "rate_agent" /\ "US 10Y Yield" \notin t.cols),
   cols   |-> t.cols \cup DerivedRates(s, t.cols),
   nan    |-> NanDefault(s, t.cols),
   netliq |-> IF req_liq \subseteq t.cols THEN {NetLiquidity(s, t.liq)} ELSE {},
   liq    |-> InputLiq(s, t.liq),
   rows   |-> t.rows]

index_cols == {"CPI (Headline)", "CPI (Core)", "PPI (Final Demand)", "PCE (Headline)",
               "Supercore (Svcs ex Shelter)", "Used Cars", "CPI Shelter",
               "China Import Prices"}
rate_cols == {"Sticky CPI", "5Y Breakeven", "10Y Real Yield"}
spread_inputs == {"CPI (Headline)", "PPI (Final Demand)"}

\* process_data: the columns of df_yoy.  cpi_agent.py keeps every column
\* and then calls calculate_spread, a KeyError when an input is missing;
\* cpi_agent_v2.1.py adds 'Profit Spread' only when both inputs are there.
process_data(s, t) ==
  [raised |-> (s = "cpi_agent" /\ ~(spread_inputs \subseteq t.cols)),
   cols   |-> IF s = "cpi_agent"
                THEN t.cols
                ELSE (t.cols \cap (index_cols \cup rate_cols))
                     \cup (IF spread_inputs \subseteq t.cols THEN {"Profit Spread"} ELSE {}),
   nan    |-> {},
   netliq |-> {},
   liq    |-> t.liq,
   rows   |-> t.rows]

Process(s, t) == IF s \in CpiScripts THEN process_data(s, t) ELSE process_rates_data(s, t)

\* ------------------------------------------------------------------------
\* The main render block of each script
\* ------------------------------------------------------------------------
\* One statement of a render block that reads the processed frame:
\*   el    <<kind, name>> of the element it emits ("none": emits nothing)
\*   guard columns the statement's own `if ... in ...` test asks for
\*         (the statement is skipped when one is missing)
\*   needs columns it indexes without a test (KeyError when one is missing)
\*   rows  rows it needs (iloc[-1], iloc[-2], iloc[-7]: IndexError)
\*   data  columns that must hold a value for the chart helper to draw
\*         (plot_df.empty: the helper returns without a chart)
\*   neg   TRUE for the statement run only when Net Liquidity < 0
St(kind, name, guard, needs, rows, data, neg) ==
  [el |-> <<kind, name>>, guard |-> guard, needs |-> needs, rows |-> rows,
   data |-> data, neg |-> neg]
Lk(name, needs, rows) == St("none", name, {}, needs, rows, {}, FALSE)
Kpi(name, guard, needs) == St("kpi", name, guard, needs, 0, {}, FALSE)
Chart(name, guard, needs, data) == St("chart", name, guard, needs, 0, data, FALSE)
Text(name, rows) == St("text", name, {}, {}, rows, {}, FALSE)

RenderSteps(s) ==
  CASE s = "cpi_agent" ->
    << Text("date", 1),
       Lk("latest", {"CPI (Headline)", "CPI (Core)", "PPI (Final Demand)"}, 1),
       St("kpi", "CPI (Headline)", {}, {"CPI (Headline)"}, 2, {}, FALSE),
       Kpi("CPI (Core)", {}, {"CPI (Core)"}),
       Kpi("PPI (Final Demand)", {}, {"PPI (Final Demand)"}),
       Kpi("Profit Spread", {}, {}),
       Chart("trend", {}, {"CPI (Headline)", "CPI (Core)", "PPI (Final Demand)",
                           "PCE (Headline)"}, {}),
       Chart("sticky vs core", {}, {"CPI (Core)", "Sticky CPI"}, {}),
       Chart("spread", {}, {}, {}),
       Chart("simulator", {}, {"CPI (Headline)"}, {}) >>
  [] s = "cpi_agent_v2_1" ->
    << Lk("latest", {}, 1),
       Lk("prev", {}, 2),
       Text("date", 0),
       Kpi("CPI (Headline)", {}, {"CPI (Headline)"}),
       Kpi("PPI (Final Demand)", {}, {"PPI (Final Demand)"}),
       Kpi("Supercore", {}, {"Supercore (Svcs ex Shelter)"}),
       Kpi("Profit Spread", {}, {"Profit Spread"}),
       Chart("CPI vs PPI", {}, {}, {}),
       Chart("spread", {}, {"Profit Spread"}, {}),
       Chart("sticky vs core", {}, {}, {}),
       Chart("used cars", {}, {}, {}),
       Chart("supercore", {}, {}, {}),
       Chart("china import prices", {}, {}, {}),
       Chart("ppi vs cpi", {}, {}, {}),
       Chart("real yield", {}, {}, {}),
       Chart("breakeven", {}, {}, {}),
       Chart("simulator", {}, {"CPI (Headline)"}, {}) >>
  [] s = "rate_agent" ->
    << Lk("latest/prev_week", {}, 7),
       Text("date", 0),
       Kpi("US 10Y Yield", {"US 10Y Yield"}, {}),
       Kpi("10Y Real Yield", {"10Y Real Yield"}, {}),
       Kpi("Net Liquidity", {}, {}),
       Kpi("Financial Conditions", {"Financial Conditions"}, {}),
       Kpi("Curve 10Y-2Y", {"Curve 10Y-2Y"}, {}),
       Chart("liquidity vs S&P 500", {"Net Liquidity", "S&P 500"}, {}, {}),
       Chart("TGA", {"TGA Account"}, {}, {}),
       Chart("RRP", {"Reverse Repo"}, {}, {}),
       Chart("2Y vs Fed Funds", {"US 2Y Yield", "Fed Funds Rate"}, {}, {}),
       Chart("10Y-3M", {"10Y-3M Spread"}, {}, {}),
       Chart("credit", {"High Yield Spread"},
             {"High Yield Spread", "Financial Conditions"}, {}),
       Kpi("ERP", {"US 10Y Yield"}, {}),
       Chart("ERP gauge", {}, {}, {}) >>
  [] s = "rate_agent_v2" ->
    << Lk("latest/prev", {}, 7),
       St("table", "liquidity diagnostics", {}, req_liq, 0, {}, TRUE),
       Kpi("US 10Y Yield", {"US 10Y Yield"}, {}),
       Kpi("10Y Real Yield", {"10Y Real Yield"}, {}),
       Kpi("Net Liquidity", {"Net Liquidity"}, {}),
       Kpi("Financial Conditions", {"Financial Conditions"}, {}),
       Kpi("Curve 10Y-2Y", {"Curve 10Y-2Y"}, {}),
       Chart("liquidity vs S&P 500", {"Net Liquidity", "S&P 500"}, {}, {"Net Liquidity"}),
       Chart("TGA", {"TGA Account"}, {}, {}),
       Chart("RRP", {"Reverse Repo"}, {}, {}),
       Chart("2Y vs Fed Funds", {"US 2Y Yield", "Fed Funds Rate"}, {}, {}),
       Chart("10Y-3M", {"10Y-3M Spread"}, {}, {}),
       Chart("credit", {"High Yield Spread", "Financial Conditions"}, {}, {}),
       Kpi("earnings yield", {"US 10Y Yield"}, {}),
       Chart("ERP gauge", {}, {}, {}) >>
  [] s = "rate_agent_v3" ->
    << Lk("latest/prev", {}, 7),
       Kpi("US 10Y Yield", {"US 10Y Yield"}, {}),
       Kpi("Net Liquidity", {"Net Liquidity"}, {}),
       Kpi("Bank Reserves", {"Bank Reserves Trillions"}, {}),
       Kpi("Liquidity Stress", {"Liquidity Stress"}, {}),
       Kpi("US 30Y Yield", {"US 30Y Yield"}, {}),
       Chart("liquidity vs S&P 500", {"Net Liquidity", "S&P 500"}, {}, {"Net Liquidity"}),
       Chart("TGA", {"TGA Account"}, {}, {}),
       Chart("RRP", {"Reverse Repo"}, {}, {}),
       Chart("SOFR vs IORB", {"SOFR Rate", "IORB Rate"}, {}, {}),
       Chart("bank reserves", {"Bank Reserves Trillions"}, {}, {}),
       Chart("supercore", {"Supercore YoY"}, {}, {}),
       Chart("breakeven", {"5Y Breakeven"}, {}, {}),
       Chart("30Y", {"US 30Y Yield"}, {}, {}),
       Chart("2Y vs Fed Funds", {"US 2Y Yield", "Fed Funds Rate"}, {}, {}),
       Chart("10Y-3M", {"10Y-3M Spread"}, {}, {}),
       Chart("credit", {"High Yield Spread", "Financial Conditions"}, {}, {}),
       Kpi("ERP", {"US 10Y Yield"}, {}),
       Chart("ERP gauge", {}, {"US 10Y Yield"}, {}) >>

\* An exception inside the try block ends it in the except handler: one
\* terminal st.error (the rate scripts and cpi_agent_v2.1.py add a st.warning
\* with a hint below it); what was emitted before stays on the page.
\* terminal counts the terminal failure messages of the cycle.
Failed(acc) == [status |-> "failed", emitted |-> acc, terminal |-> 1]
Complete(acc) == [status |-> "complete", emitted |-> acc, terminal |-> 0]

\* An exception no handler catches ends the script run with a traceback.
Escaped(acc) == [status |-> "escaped", emitted |-> acc, terminal |-> 0]

\* A variant of the handler that catches KeyError only.
CaughtKeyErrorOnly(exc) == exc = "KeyError"

\* `except Exception`: the exceptions the statements of the try block
\* raise (KeyError of a column lookup, IndexError of iloc) derive from
\* Exception.
Caught(exc) == exc \in {"KeyError", "IndexError"}

Handle(exc, acc) == IF Caught(exc) THEN Failed(acc) ELSE Escaped(acc)

Skipped(st, f) ==
  \/ ~(st.guard \subseteq f.cols)
  \/ st.neg /\ ~(\E v \in f.netliq : v < 0)

Exc(st, f) ==
  IF ~(st.needs \subseteq f.cols) THEN "KeyError"
  ELSE IF f.rows < st.rows THEN "IndexError"
  ELSE "none"

Throws(st, f) == Exc(st, f) # "none"

Emits(st, f) ==
  IF st.el[1] = "none" \/ (st.data \cap f.nan) # {} THEN {} ELSE {st.el}

\* The statements of the try block after the frame is there, in order.
RECURSIVE RunSteps(_, _, _, _)
RunSteps(q, i, f, acc) ==
  IF i > Len(q) THEN Complete(acc)
  ELSE IF Skipped(q[i], f) THEN RunSteps(q, i + 1, f, acc)
  ELSE IF Throws(q[i], f) THEN Handle(Exc(q[i], f), acc)
  ELSE RunSteps(q, i + 1, f, acc \cup Emits(q[i], f))

\* cpi_agent_v2.1.py: `if 'CPI (Headline)' not in raw_df.columns:` st.error
\* and st.stop() before anything is derived.
AnchorCheckStops(s, t) == s = "cpi_agent_v2_1" /\ AnchorName(s) \notin t.cols

\* The rate scripts: `if df.empty:` st.error and st.stop().
EmptyCheckStops(s, f) == s \in RateScripts /\ f.rows = 0

\* The render block from the return of the cached fetch on.  g is what the
\* call of the cached function gave: raised, or a table.
\* The two st.stop() paths show one st.error before they stop.
Render(s, g) ==
  IF g.raised THEN Handle("KeyError", {})
  ELSE IF AnchorCheckStops(s, g.table) THEN Failed({})
  ELSE LET f == Process(s, g.table)
       IN  IF f.raised THEN Handle("KeyError", {})
           ELSE IF EmptyCheckStops(s, f) THEN Failed({})
           ELSE RunSteps(RenderSteps(s), 1, f, {})


\* ------------------------------------------------------------------------
\* Series content: alignment, YoY / MoM and the base effect simulator
\* ------------------------------------------------------------------------
\* A cell of a series or of a table column: {} is NaN, {v} the value v.
NaN == {}
Val(c) == CHOOSE v \in c : TRUE
Max(S) == CHOOSE x \in S : \A y \in S : y <= x

Min(S) == CHOOSE x \in S : \A y \in S : x <= y

\* A few columns of each script are followed through the pipeline: the
\* anchor, a second series of the same kind, and a series of another kind
\* (a rate in the CPI scripts, a low-frequency series in the rate scripts);
\* in rate_agent_v3.py also the two inputs of 'Liquidity Stress'.
CalcCols(s) ==
  CASE s = "cpi_agent" -> <<"CPI (Headline)", "PPI (Final Demand)", "Sticky CPI">>
    [] s = "cpi_agent_v2_1" -> <<"CPI (Headline)", "PPI (Final Demand)", "5Y Breakeven">>
    [] s = "rate_agent_v3" ->
         <<"US 10Y Yield", "US 2Y Yield", "Supercore CPI Index", "SOFR Rate", "IORB Rate">>
    [] OTHER -> <<"US 10Y Yield", "US 2Y Yield", "Fed Total Assets">>
ColsOf(s) == 1..Len(CalcCols(s))

\* What the Series Source holds on date d (dates are consecutive periods
\* 1, 2, ...) for column j: index levels in tenths of a point (100.0 on date
\* 1, 110.0 on date 13), rates in tenths of a percent.
Value(j, d) ==
  CASE j = 1 -> 1000 + 8 * (d - 1) + (d - 1) \div 3
    [] j = 2 -> 2000 + 5 * (d - 1) + (d - 1) \div 2
    [] j = 3 -> 35 + (d % 4)
    [] j = 4 -> 53 + (d % 3)
    [] OTHER -> 54

\* The dates of the CPI scripts are months.  The dates of the rate scripts
\* are calendar days, days 6 and 7 of each week the weekend: the daily
\* series are dated on business days; the third column is dated weekly on
\* day 3 (WALCL) or, in rate_agent_v3.py, on the first day of each month of
\* 30 days wherever it falls (CUSR0000SAD), date 6 being such a day.
Weekend(d) == d % 7 \in {6, 0}
MonthStart(d) == d % 30 = 6
OnCalendar(s, j, d) ==
  IF s \in CpiScripts THEN TRUE
  ELSE IF j # 3 THEN ~Weekend(d)
  ELSE IF s = "rate_agent_v3" THEN MonthStart(d)
  ELSE d % 7 = 3

\* Lengths of the date range, and the observations missing in it: none, or
\* one or two consecutive dates of one column; absent: these dates are no
\* part of the series' index (otherwise they are in it with NaN).  pad:
\* whether the installed pandas forward-fills inside pct_change
\* (fill_method='pad', the default before pandas 3) or not.
\* A range of LongLen dates, without gaps, holds more than a year of rows.
Lens == {2, 10, 13, MaxLen}
NoGap == [col |-> 1, from |-> 1, to |-> 0]
Gaps(L) ==
  {NoGap} \cup
  {g \in [col : 1..5, from : 1..L, to : 1..L] : g.to \in {g.from, g.from + 1}}
Sources ==
  UNION {{[len |-> L, gap |-> g, absent |-> a, pad |-> p] :
            g \in Gaps(L), a \in BOOLEAN, p \in BOOLEAN} : L \in Lens}
  \cup {[len |-> LongLen, gap |-> NoGap, absent |-> FALSE, pad |-> p] : p \in BOOLEAN}
NoSource == [len |-> 0, gap |-> NoGap, absent |-> FALSE, pad |-> FALSE]
InGap(src, j, d) == j = src.gap.col /\ d \in src.gap.from..src.gap.to

\* The index of the series fred.get_series returns for column j, and the
\* series, one cell per date of the range (NaN off the index).
IndexOf(s, src, j) ==
  {d \in 1..src.len : OnCalendar(s, j, d) /\ ~(src.absent /\ InGap(src, j, d))}
Obs(s, src, j, d) ==
  IF OnCalendar(s, j, d) /\ ~InGap(src, j, d) THEN {Value(j, d)} ELSE NaN
Series(s, src, j) == [d \in 1..src.len |-> Obs(s, src, j, d)]
RawFrame(s, src) == [j \in ColsOf(s) |-> Series(s, src, j)]

\* liq_df.resample('D').ffill() of rate_agent.py: one row per calendar day
\* from the first to the last date of the index, each with the cell of the
\* latest index date at or before it.
ResampleDates(I) == IF I = {} THEN {} ELSE Min(I)..Max(I)
ResampleFfill(q, I) ==
  [d \in 1..Len(q) |->
     IF d \in ResampleDates(I) THEN q[Max({e \in I : e <= d})] ELSE NaN]

\* The dates of the merged frame.  The CPI scripts assign each series to a
\* column of the frame (df[name] = series): the first series gives the
\* frame its index, the later ones are reindexed to it.  rate_agent.py
\* joins with how='outer', rate_agent_v2.py and rate_agent_v3.py concat
\* along axis 1: the union of the indexes.
MergedDates(s, src) ==
  IF s \in CpiScripts THEN IndexOf(s, src, 1)
  ELSE IF s = "rate_agent"
    THEN IndexOf(s, src, 1) \cup IndexOf(s, src, 2) \cup ResampleDates(IndexOf(s, src, 3))
  ELSE UNION {IndexOf(s, src, j) : j \in ColsOf(s)}

MergedFrame(s, src) ==
  IF s = "rate_agent"
    THEN [RawFrame(s, src) EXCEPT ![3] = ResampleFfill(@, IndexOf(s, src, 3))]
    ELSE RawFrame(s, src)

\* df.ffill(): each NaN cell takes the value carried from above.
Ffill(q) ==
  LET carried[d \in 1..Len(q)] == IF q[d] # NaN \/ d = 1 THEN q[d] ELSE carried[d - 1]
  IN  [d \in 1..Len(q) |-> carried[d]]

\* Only the rate scripts call ffill: rate_agent.py in process_rates_data
\* (and resample('D').ffill() on the liquidity frame), rate_agent_v2.py and
\* rate_agent_v3.py in get_rates_data.  The CPI scripts never do.
Fills(s) == s \in RateScripts

\* The frame as a sequence of rows, one per date of D in ascending order.
Rows(fr, D) ==
  LET rank == [d \in D |-> Cardinality({e \in D : e <= d})]
      at == [i \in 1..Cardinality(D) |-> CHOOSE d \in D : rank[d] = i]
  IN  [i \in 1..Cardinality(D) |-> [date |-> at[i], v |-> [j \in DOMAIN fr |-> fr[j][at[i]]]]]

\* df.ffill() on a table.
Filled(s, t) ==
  IF Fills(s) /\ t # << >>
    THEN LET cols == [j \in DOMAIN t[1].v |-> Ffill([e \in 1..Len(t) |-> t[e].v[j]])]
         IN  [i \in 1..Len(t) |->
                [date |-> t[i].date, v |-> [j \in DOMAIN t[i].v |-> cols[j][i]]]]
    ELSE t

\* cpi_agent.py: raw_df.dropna(); the others: dropna(subset=[anchor]).
DropSubset(s) == IF s = "cpi_agent" THEN 1..3 ELSE {1}
KeepRow(s, r) == \A j \in DropSubset(s) : r.v[j] # NaN
DropNa(s, t) == SelectSeq(t, LAMBDA r : KeepRow(s, r))

\* The merged table, before any fill or drop.
MergedTable(s, src) == Rows(MergedFrame(s, src), MergedDates(s, src))

\* What the cached function returns: the merged table; in rate_agent_v2.py
\* and rate_agent_v3.py the merged table filled and without the rows that
\* lack the anchor.
CachedTable(s, src) ==
  IF s \in {"rate_agent_v2", "rate_agent_v3"}
    THEN DropNa(s, Filled(s, MergedTable(s, src)))
    ELSE MergedTable(s, src)

\* The table handed to the derivation: the CPI scripts drop rows of the
\* cached table, rate_agent.py fills it and drops rows at the start of
\* process_rates_data.
AlignedTable(s, src) ==
  IF s \in {"rate_agent_v2", "rate_agent_v3"}
    THEN CachedTable(s, src)
    ELSE DropNa(s, Filled(s, CachedTable(s, src)))

Column(t, j) == [i \in 1..Len(t) |-> t[i].v[j]]

\* (v / b - 1) * 100, in hundredths of a percent (rounded down).
Pct(v, b) == ((v - b) * 10000) \div b

\* Series.pct_change(n): row i against row i - n of the same table.
PctChange(q, n, pad) ==
  LET p == IF pad THEN Ffill(q) ELSE q
  IN  [i \in 1..Len(q) |->
         IF i <= n \/ p[i] = NaN \/ p[i - n] = NaN
           THEN NaN
           ELSE {Pct(Val(p[i]), Val(p[i - n]))}]

\* A variant in which no column is copied.
direct_cols_none(s) == {}

\* Columns copied into df_yoy as they are: 'Sticky CPI' (and 'US_10Y_Yield')
\* in cpi_agent.py, rate_cols in cpi_agent_v2.1.py.
direct_cols(s) == IF s = "cpi_agent" THEN {"Sticky CPI", "US_10Y_Yield"} ELSE rate_cols

IsDirect(s, j) == CalcCols(s)[j] \in direct_cols(s)

\* A variant in which a missing input counts as 0.
MinusMissingAsZero(a, b) ==
  [i \in 1..Len(a) |->
     {(IF a[i] = NaN THEN 0 ELSE Val(a[i])) - (IF b[i] = NaN THEN 0 ELSE Val(b[i]))}]

\* a - b on two columns of one table: NaN where either is.
Minus(a, b) ==
  [i \in 1..Len(a) |->
     IF a[i] = NaN \/ b[i] = NaN THEN NaN ELSE {Val(a[i]) - Val(b[i])}]

\* process_data: df_yoy, one column per followed series.
YoyTable(s, t, pad) ==
  [j \in 1..3 |->
     IF IsDirect(s, j) THEN Column(t, j) ELSE PctChange(Column(t, j), YoyLag, pad)]

\* process_data: df_mom (cpi_agent.py only; cpi_agent_v2.1.py has none).
MomTable(s, t, pad) ==
  IF s = "cpi_agent"
    THEN [j \in 1..3 |->
            IF IsDirect(s, j) THEN [i \in 1..Len(t) |-> NaN]
            ELSE PctChange(Column(t, j), 1, pad)]
    ELSE << >>

\* The spreads: name and the two input columns (of df_yoy in the CPI
\* scripts, of the table in the rate scripts).
Spreads(s) ==
  IF s \in CpiScripts THEN {[name |-> "Profit Spread", a |-> 1, b |-> 2]}
  ELSE {[name |-> "Curve 10Y-2Y", a |-> 1, b |-> 2]} \cup
       (IF s = "rate_agent_v3" THEN {[name |-> "Liquidity Stress", a |-> 4, b |-> 5]} ELSE {})
SpreadInput(s, t, yoy, j) == IF s \in CpiScripts THEN yoy[j] ELSE Column(t, j)

\* The derived columns followed, by name: the spreads and, in
\* rate_agent_v3.py, 'Supercore YoY'.
DerivedNames(s) ==
  {sp.name : sp \in Spreads(s)} \cup (IF s = "rate_agent_v3" THEN {"Supercore YoY"} ELSE {})
DerivedCols(s, t, yoy, pad) ==
  [n \in DerivedNames(s) |->
     IF n = "Supercore YoY" THEN PctChange(Column(t, 3), SupercoreLag, pad)
     ELSE LET sp == CHOOSE x \in Spreads(s) : x.name = n
          IN  Minus(SpreadInput(s, t, yoy, sp.a), SpreadInput(s, t, yoy, sp.b))]

\* The rate scripts' render: an empty table stops the script with an
\* error; latest = df.iloc[-1], the prior-period row is df.iloc[-7], an
\* IndexError on a table of fewer than 7 rows.
PrevOffset == 7
KpiRow(t) ==
  IF Len(t) = 0 THEN [status |-> "empty", latest |-> 0, prev |-> 0]
  ELSE IF Len(t) < PrevOffset THEN [status |-> "IndexError", latest |-> t[Len(t)].date, prev |-> 0]
  ELSE [status |-> "ok", latest |-> t[Len(t)].date, prev |-> t[Len(t) + 1 - PrevOffset].date]
NoBoard == [status |-> "none", latest |-> 0, prev |-> 0]

\* Positions of the assumed-MoM slider tried, in tenths of a percent
\* (assumed_mom is the slider value / 100): 0.0 .. 1.0, from -0.2 in
\* cpi_agent_v2.1.py.
Rates(s) == IF s = "cpi_agent" THEN {0, 2, 10} ELSE {-2, 0, 2, 10}

\* Simulated levels are kept in thousandths of a point.
SimLevel(c) == Val(c) * 100

\* A variant that leaves the level where it is.
GrowNot(curr, k) == curr

\* current_sim_index * (1 + assumed_mom)
Grow(curr, k) == (curr * (1000 + k)) \div 1000

\* iloc[-13:-13+months_to_predict] on a column of n rows: the rows at
\* 0-based positions BaseStart(n) .. BaseStop(n) - 1 (a negative bound that
\* reaches below the first row is clipped to it).
BaseStart(n) == IF n - 13 > 0 THEN n - 13 ELSE 0
BaseStop(n) == IF n - 13 + months_to_predict > 0 THEN n - 13 + months_to_predict ELSE 0
BaseLen(n) == IF BaseStop(n) > BaseStart(n) THEN BaseStop(n) - BaseStart(n) ELSE 0

\* for i in range(months_to_predict): one record per step; pos is the row
\* of the table whose level was the base (0: none, the step is NaN).
RECURSIVE SimLoop(_, _, _, _)
SimLoop(i, curr, col, k) ==
  IF i >= months_to_predict THEN << >>
  ELSE LET next == Grow(curr, k)
           n == Len(col)
           has == i < BaseLen(n)
           at == BaseStart(n) + i + 1
       IN  << [level |-> next,
               pos |-> IF has THEN at ELSE 0,
               yoy |-> IF has THEN {Pct(next, SimLevel(col[at]))} ELSE NaN] >>
           \o SimLoop(i + 1, next, col, k)

\* The simulator block on the table t with slider position k.
Simulator(t, k) ==
  LET col == Column(t, 1)
      n == Len(col)
  IN  [rate |-> k,
       last |-> SimLevel(col[n]),
       base |-> SubSeq(col, BaseStart(n) + 1, BaseStop(n)),
       steps |-> SimLoop(0, SimLevel(col[n]), col, k)]

NoSim == [rate |-> 0, last |-> 0, base |-> << >>, steps |-> << >>]


\* ------------------------------------------------------------------------
\* State
\* ------------------------------------------------------------------------
VARIABLES
  script,    \* the script the app runs (fixed per behaviour)
  data,      \* what the Series Source holds (fixed per behaviour)
  setup,     \* the sessions and slider positions in use (fixed per behaviour)
  now,       \* wall clock, seconds
  cycles,    \* number of script runs started so far
  cache,     \* st.cache_data store of the fetch function: key -> table
  lock,      \* per key, the session computing the value on a miss
  sess,      \* per session: position in its render cycle
  last,      \* the render cycle that finished last: its session, its call
             \* of the cached function and what the call gave
  lastReq,   \* per key and code: time of the latest Series Source request
  prevReq,   \* per key and code: time of the request before the latest
  lastDone,  \* per key: outcome of the latest run of the function body
  api_key,   \* the API key text input in the script run started last
  fred,      \* TRUE when that run constructed the Fred client
  source,    \* series content followed through one cycle (dates, gaps)
  stage,     \* how far that cycle is: "raw", "aligned", "derived", "simulated"
  merged_df, \* the fetched series merged into one table
  cached_df, \* the table the cached function returned
  raw_df,    \* the aligned table, a sequence of rows
  derived,   \* the derived columns computed from the aligned table
  board,     \* the KPI row of the rate scripts: latest and prior-period row
  df_yoy,    \* process_data: YoY table, per column
  df_mom,    \* process_data: MoM table, per column
  sim,       \* the latest run of the simulator block
  prev_sim   \* the run before it

cycleVars == <<now, cycles, cache, lock, sess, last, lastReq, prevReq, lastDone, api_key, fred>>
calcVars == <<source, stage, merged_df, cached_df, raw_df, derived, board, df_yoy, df_mom,
              sim, prev_sim>>
vars == <<script, data, setup, now, cycles, cache, lock, sess, last, lastReq, prevReq, lastDone,
          api_key, fred, source, stage, merged_df, cached_df, raw_df, derived, board, df_yoy,
          df_mom, sim, prev_sim>>

\* A variant of the sidebar without the check.
CredentialCheckNever(key) == FALSE

\* `if not api_key:` st.warning and st.stop(), in the sidebar block, before
\* fred = Fred(api_key=api_key).
CredentialCheckStops(key) == key = ""

\* A variant in which the lookback is no part of the cache key.
KeyOfIgnoringArg(s, y) == IF s \in CpiScripts THEN NoArg ELSE 5

\* The cache key of a call: the lookback argument (none in the CPI scripts).
\* In a call of a CPI script y is NoArg.
KeyOf(s, y) == IF s \in CpiScripts THEN NoArg ELSE y
Args == IF script \in CpiScripts THEN {NoArg} ELSE setup.lookbacks

\* ttl=3600: an entry stored at time T answers calls in [T, T + TTL).
Valid(k) == cache[k] # NoTable /\ now < cache[k].at + TTL

\* A variant in which the credential is part of the cache key.
HitSameKey(k, key) == Valid(k) /\ lastDone[k].cred = key

\* A call with cache key k in a run whose credential is key is answered
\* from the cache: the cached function reads the global fred, the
\* credential is no argument of it and no part of the cache key.
Hit(k, key) == Valid(k)

\* The stored table as the cycle's in-place assignments on the returned
\* object leave that object (process_rates_data of rate_agent_v2.py and
\* rate_agent_v3.py assigns columns to its argument).
InPlace(s, t) ==
  IF s \in {"rate_agent_v2", "rate_agent_v3"} /\ t # NoTable /\ ~Process(s, t).raised
    THEN [t EXCEPT !.cols = Process(s, t).cols]
    ELSE t

\* A variant in which the cache hands out the stored object itself.
EntrySharedWithCaller(s, t) == InPlace(s, t)

\* The cache entry after a cycle has worked on the table it was handed:
\* st.cache_data hands every caller a copy of the stored value, the entry
\* is left as stored.
Entry(s, t) == t

NoCycle ==
  [sid |-> NoSession, kind |-> "none", years |-> NoArg, key |-> NoArg, cred |-> "", at |-> -1,
   waited |-> FALSE,
   F |-> {}, raised |-> FALSE, table |-> NoTable]

\* What the last finished render cycle did with the result of its call.
Done == last.kind # "none"
Requested == IF last.kind = "fetch" THEN BatchRequested(script, last.F) ELSE {}
Status == Render(script, last).status
Terminal == Render(script, last).terminal
Reports == IF last.kind = "fetch" THEN BatchReports(script, last.F) ELSE {}
Emitted == Render(script, last).emitted
HasFrame ==
  /\ Done
  /\ ~last.raised
  /\ ~AnchorCheckStops(script, last.table)
  /\ ~Process(script, last.table).raised
Frame == Process(script, last.table)

\* Nothing cached, no cycle run yet.
CycleStart ==
  /\ now = 0
  /\ cycles = 0
  /\ cache = [k \in Args |-> NoTable]
  /\ lock = [k \in Args |-> NoSession]
  /\ sess = [s \in Sessions |-> [pc |-> "idle", years |-> NoArg, key |-> NoArg, cred |-> "", waited |-> FALSE]]
  /\ last = NoCycle
  /\ lastReq = [k \in Args |-> [c \in Codes(script) |-> -1]]
  /\ prevReq = [k \in Args |-> [c \in Codes(script) |-> -1]]
  /\ lastDone = [k \in Args |-> [raised |-> FALSE, table |-> NoTable, cred |-> ""]]
  /\ api_key = "key"
  /\ fred = FALSE

\* The series of `source` fetched, nothing computed from them yet.
CalcStart ==
  /\ stage = "raw"
  /\ merged_df = << >>
  /\ cached_df = << >>
  /\ raw_df = << >>
  /\ derived = << >>
  /\ board = NoBoard
  /\ df_yoy = << >>
  /\ df_mom = << >>
  /\ sim = NoSim
  /\ prev_sim = NoSim

Init ==
  /\ script \in Scripts
  /\ data \in Samples
  /\ setup \in Setups
  /\ CycleStart
  /\ source = NoSource
  /\ CalcStart

\* ------------------------------------------------------------------------
\* Actions
\* ------------------------------------------------------------------------
\* A script run whose call of the cached function is answered from the
\* cache: the whole render cycle runs on the stored table.
StartHit ==
  \E s \in setup.sessions, y \in Args, key \in setup.keys :
    LET k == KeyOf(script, y) IN
    /\ sess[s].pc = "idle"
    /\ ~CredentialCheckStops(key)
    /\ api_key' = key
    /\ fred' = TRUE
    /\ cycles < MaxCycles
    /\ Hit(k, key)
    /\ cycles' = cycles + 1
    /\ last' = [sid |-> s, kind |-> "hit", years |-> y, key |-> k, cred |-> key, at |-> now,
                waited |-> FALSE,
                F |-> {}, raised |-> FALSE, table |-> cache[k]]
    /\ sess' = [sess EXCEPT ![s] = [pc |-> "idle", years |-> NoArg, key |-> NoArg, cred |-> "", waited |-> FALSE]]
    /\ cache' = [cache EXCEPT ![k] = Entry(script, @)]
    /\ UNCHANGED <<script, data, setup, now, lock, lastReq, prevReq, lastDone>>
    /\ UNCHANGED calcVars

\* A script run that misses the cache and enters the function body.
StartMiss ==
  \E s \in setup.sessions, y \in Args, key \in setup.keys :
    LET k == KeyOf(script, y) IN
    /\ sess[s].pc = "idle"
    /\ ~CredentialCheckStops(key)
    /\ api_key' = key
    /\ fred' = TRUE
    /\ cycles < MaxCycles
    /\ ~Hit(k, key)
    /\ lock[k] = NoSession
    /\ cycles' = cycles + 1
    /\ lock' = [lock EXCEPT ![k] = s]
    /\ sess' = [sess EXCEPT ![s] = [pc |-> "fetching", years |-> y, key |-> k, cred |-> key, waited |-> FALSE]]
    /\ UNCHANGED <<script, data, setup, now, cache, last, lastReq, prevReq, lastDone>>
    /\ UNCHANGED calcVars

\* A script run that misses the cache while another session is computing
\* the same key: it waits for that computation.
StartBlocked ==
  \E s \in setup.sessions, y \in Args, key \in setup.keys :
    LET k == KeyOf(script, y) IN
    /\ sess[s].pc = "idle"
    /\ ~CredentialCheckStops(key)
    /\ api_key' = key
    /\ fred' = TRUE
    /\ cycles < MaxCycles
    /\ ~Hit(k, key)
    /\ lock[k] # NoSession
    /\ cycles' = cycles + 1
    /\ sess' = [sess EXCEPT ![s] = [pc |-> "waiting", years |-> y, key |-> k, cred |-> key, waited |-> TRUE]]
    /\ UNCHANGED <<script, data, setup, now, cache, lock, last, lastReq, prevReq, lastDone>>
    /\ UNCHANGED calcVars

\* A script run with the API key input empty: the sidebar block shows its
\* warning and stops the run.
StartNoKey ==
  \E s \in setup.sessions, key \in setup.keys :
    /\ sess[s].pc = "idle"
    /\ cycles < MaxCycles
    /\ CredentialCheckStops(key)
    /\ api_key' = key
    /\ fred' = FALSE
    /\ cycles' = cycles + 1
    /\ UNCHANGED <<script, data, setup, now, cache, lock, sess, last, lastReq, prevReq, lastDone>>
    /\ UNCHANGED calcVars

\* The function body runs: one fetch batch in which the codes of F raise.
\* A returned table is stored; an exception is not.  The rest of the render
\* cycle follows.
FetchDone ==
  \E s \in setup.sessions, F \in FailSets(script) :
    LET k == sess[s].key
        g == IF FetchRaises(script, F)
               THEN [raised |-> TRUE, table |-> NoTable]
               ELSE [raised |-> FALSE, table |-> FetchTable(script, F, data, sess[s].years, now)]
        R == BatchRequested(script, F)
    IN
    /\ sess[s].pc = "fetching"
    /\ cache' = IF g.raised THEN cache ELSE [cache EXCEPT ![k] = Entry(script, g.table)]
    /\ lastDone' = [lastDone EXCEPT ![k] = [raised |-> g.raised, table |-> g.table,
                                             cred |-> sess[s].cred]]
    /\ lock' = [lock EXCEPT ![k] = NoSession]
    /\ prevReq' = [prevReq EXCEPT ![k] =
                     [c \in Codes(script) |->
                        IF c \in R THEN lastReq[k][c] ELSE prevReq[k][c]]]
    /\ lastReq' = [lastReq EXCEPT ![k] =
                     [c \in Codes(script) |-> IF c \in R THEN now ELSE lastReq[k][c]]]
    /\ last' = [sid |-> s, kind |-> "fetch", years |-> sess[s].years, key |-> k,
                cred |-> sess[s].cred, at |-> now,
                waited |-> sess[s].waited, F |-> F, raised |-> g.raised,
                table |-> g.table]
    /\ sess' = [sess EXCEPT ![s] = [pc |-> "idle", years |-> NoArg, key |-> NoArg, cred |-> "", waited |-> FALSE]]
    /\ UNCHANGED <<script, data, setup, now, cycles, api_key, fred>>
    /\ UNCHANGED calcVars

\* A waiting session finds the value the other session stored.
WakeHit ==
  \E s \in setup.sessions :
    LET k == sess[s].key IN
    /\ sess[s].pc = "waiting"
    /\ lock[k] = NoSession
    /\ Hit(k, sess[s].cred)
    /\ last' = [sid |-> s, kind |-> "hit", years |-> sess[s].years, key |-> k,
                cred |-> sess[s].cred, at |-> now, waited |-> TRUE,
                F |-> {}, raised |-> FALSE, table |-> cache[k]]
    /\ sess' = [sess EXCEPT ![s] = [pc |-> "idle", years |-> NoArg, key |-> NoArg, cred |-> "", waited |-> FALSE]]
    /\ cache' = [cache EXCEPT ![k] = Entry(script, @)]
    /\ UNCHANGED <<script, data, setup, now, cycles, lock, lastReq, prevReq, lastDone, api_key, fred>>
    /\ UNCHANGED calcVars

\* A waiting session finds no value (the other computation raised, or the
\* entry has expired meanwhile) and enters the function body itself.
WakeMiss ==
  \E s \in setup.sessions :
    LET k == sess[s].key IN
    /\ sess[s].pc = "waiting"
    /\ lock[k] = NoSession
    /\ ~Hit(k, sess[s].cred)
    /\ lock' = [lock EXCEPT ![k] = s]
    /\ sess' = [sess EXCEPT ![s] = [pc |-> "fetching", years |-> sess[s].years, key |-> k, cred |-> sess[s].cred,
                                    waited |-> TRUE]]
    /\ UNCHANGED <<script, data, setup, now, cycles, cache, last, lastReq, prevReq, lastDone, api_key, fred>>
    /\ UNCHANGED calcVars

\* Time passes.
Tick ==
  /\ now + Step <= MaxTime
  /\ now' = now + Step
  /\ UNCHANGED <<script, data, setup, cycles, cache, lock, sess, last, lastReq, prevReq, lastDone, api_key, fred>>
  /\ UNCHANGED calcVars

Next ==
  \/ StartNoKey
  \/ StartHit
  \/ StartMiss
  \/ StartBlocked
  \/ FetchDone
  \/ WakeHit
  \/ WakeMiss
  \/ Tick

Spec == Init /\ [][Next]_vars

\* ------------------------------------------------------------------------
\* One cycle followed through its data: align, derive, simulate
\* ------------------------------------------------------------------------
CalcInit ==
  /\ script \in Scripts
  /\ source \in Sources
  /\ source.gap.col \in ColsOf(script)
  /\ source.len = LongLen => script = "rate_agent_v3"
  /\ data = [rows |-> source.len, liq |-> <<9000000, 700000, 500>>]
  /\ setup = [sessions |-> {"s1"}, lookbacks |-> {5}, keys |-> {"key"}]
  /\ CycleStart
  /\ CalcStart

\* The fetched series are merged into one table, the cached function
\* returns, and the render cycle fills (rate scripts) and drops the rows
\* without the anchor (cpi_agent.py: with any NaN).
Align ==
  /\ stage = "raw"
  /\ merged_df' = MergedTable(script, source)
  /\ cached_df' = CachedTable(script, source)
  /\ raw_df' = AlignedTable(script, source)
  /\ stage' = "aligned"
  /\ UNCHANGED <<script, data, setup, source, derived, board, df_yoy, df_mom, sim, prev_sim>>
  /\ UNCHANGED cycleVars

\* process_data(raw_df) and the spread of the CPI scripts;
\* process_rates_data(df) and the KPI row of the rate scripts.
Derive ==
  /\ stage = "aligned"
  /\ df_yoy' = IF script \in CpiScripts THEN YoyTable(script, raw_df, source.pad) ELSE << >>
  /\ df_mom' = IF script \in CpiScripts THEN MomTable(script, raw_df, source.pad) ELSE << >>
  /\ derived' = DerivedCols(script, raw_df, df_yoy', source.pad)
  /\ board' = IF script \in RateScripts THEN KpiRow(raw_df) ELSE NoBoard
  /\ stage' = "derived"
  /\ UNCHANGED <<script, data, setup, source, merged_df, cached_df, raw_df, sim, prev_sim>>
  /\ UNCHANGED cycleVars

\* The simulator block of the CPI scripts, reached when iloc[-2] above it
\* found its row; run again on every move of the slider.
Simulate ==
  \E k \in Rates(script) :
    /\ stage \in {"derived", "simulated"}
    /\ script \in CpiScripts
    /\ Len(raw_df) >= 2
    /\ prev_sim' = sim
    /\ sim' = Simulator(raw_df, k)
    /\ stage' = "simulated"
    /\ UNCHANGED <<script, data, setup, source, merged_df, cached_df, raw_df, derived, board,
                   df_yoy, df_mom>>
    /\ UNCHANGED cycleVars

CalcNext ==
  \/ Align
  \/ Derive
  \/ Simulate

SpecCalc == CalcInit /\ [][CalcNext]_vars

\* ========================================================================
\* Properties
\* ========================================================================
Pairs(s) == Range(tickers(s)) \cup Range(liquidity(s))
NamesOf(s, C) == {p[2] : p \in {q \in Pairs(s) : q[1] \in C}}
Data(E) == {e \in E : e[1] \in {"table", "kpi", "chart"}}

\* The cycle the same call would have given had no fetch raised.
FullTable == FetchTable(script, {}, data, last.years, last.at)
FullRun == Render(script, [raised |-> FALSE, table |-> FullTable])

\* The columns a statement of the render block reads.
Reads(st) == st.guard \cup st.needs \cup st.data
Independent(e, names) ==
  \A st \in Range(RenderSteps(script)) : st.el = e => Reads(st) \cap names = {}

\* Series codes that feed a composite metric, and the metrics they feed.
CompositeInputs(s) ==
  IF s \in CpiScripts THEN {"CPIAUCSL", "PPIFIS"}
  ELSE {"WALCL", "WTREGEN", "RRPONTSYD", "DGS10", "DGS2"}
       \cup (IF s = "rate_agent_v3" THEN {"SOFR", "IORB", "CUSR0000SAD", "TOTRESNS"} ELSE {})

\* C1: in every script's fetch step, whatever set of codes raises, every
\* configured code is still requested and the column of every code that
\* did not raise is in the returned table.
C1_IndependentFetch ==
  (Done /\ last.kind = "fetch") =>
     /\ Requested = Codes(script)
     /\ ~last.raised => NamesOf(script, Codes(script) \ last.F) \subseteq last.table.cols

\* C2: when the fetch of the anchor series raises, the render cycle ends
\* with the failure message and emits no table, KPI card or chart,
\* whatever the other fetches did.
C2_AnchorFailureFatal ==
  (Done /\ last.kind = "fetch" /\ AnchorCode(script) \in last.F) =>
     (Status = "failed" /\ Data(Emitted) = {})

\* C2 witness: a cycle whose anchor fetch alone raised has ended.
C2_Witness ==
  /\ Done
  /\ last.kind = "fetch"
  /\ last.F = {AnchorCode(script)}
  /\ Status = "failed"

\* C3: when only series that are neither the anchor nor an input of a
\* composite metric raise, the cycle completes without the terminal error
\* and every element that does not read the missing series is rendered.
C3_PlainSeriesFailureTolerated ==
  (/\ Done
   /\ last.kind = "fetch"
   /\ last.F # {}
   /\ last.F \cap CompositeInputs(script) = {}
   /\ FullRun.status = "complete") =>
     /\ Status = "complete"
     /\ \A e \in FullRun.emitted :
           Independent(e, NamesOf(script, last.F)) => e \in Emitted

\* C4: when an input of a composite metric (not the anchor) is absent after
\* the fetch, the cycle is not fatal: it completes without the terminal
\* error.
C4_MissingCompositeInputNotFatal ==
  (/\ Done
   /\ last.kind = "fetch"
   /\ last.F # {}
   /\ last.F \subseteq CompositeInputs(script) \ {AnchorCode(script)}
   /\ FullRun.status = "complete") =>
     Status = "complete"

\* C5: a composite metric whose input columns are not all in the table
\* passed to the derivation step is no column of the output at all.
C5_NoMetricWithoutInputs ==
  HasFrame =>
     /\ ~(req_liq \subseteq last.table.cols) => "Net Liquidity" \notin Frame.cols
     /\ ~({"US 10Y Yield", "US 2Y Yield"} \subseteq last.table.cols)
           => "Curve 10Y-2Y" \notin Frame.cols
     /\ ~({"SOFR Rate", "IORB Rate"} \subseteq last.table.cols)
           => "Liquidity Stress" \notin Frame.cols
     /\ ~(spread_inputs \subseteq last.table.cols) => "Profit Spread" \notin Frame.cols

\* C6: in every rate script Net Liquidity is, in trillions,
\* FedAssets/1,000,000 - TGA/1,000,000 - RRP/1,000; FedAssets = 9,000,000,
\* TGA = 700,000, RRP = 500 give 7.8 (amounts below in millionths of a
\* trillion: one million of dollars is 1, one billion is 1000).
C6_NetLiquidityUnits ==
  (HasFrame /\ script \in RateScripts /\ req_liq \subseteq last.table.cols) =>
     /\ Frame.netliq =
          {last.table.liq[1] - last.table.liq[2] - 1000 * last.table.liq[3]}
     /\ last.table.liq = <<9000000, 700000, 500>> => Frame.netliq = {7800000}

\* A call of the cached function ends in this step.
CallEnds == last' # last

\* C7: while a stored table is inside its window [T, T + 3600), every call
\* with its key returns that table and requests nothing; the first call at
\* or after T + 3600 requests every configured series again.
C7_TtlWindow ==
  [][CallEnds =>
       LET k == last'.key IN
       /\ Valid(k) =>
            /\ last'.kind = "hit"
            /\ last'.table = cache[k]
            /\ lastReq' = lastReq
       /\ (cache[k] # NoTable /\ ~Valid(k)) =>
            /\ last'.kind = "fetch"
            /\ \A c \in Codes(script) : lastReq'[k][c] = now]_vars

\* C8: with one lookback, each series code is requested at most once in
\* any 3600-second window, also over cycles in which fetches fail.
C8_OncePerTtl ==
  \A k \in DOMAIN lastReq : \A c \in Codes(script) :
     prevReq[k][c] >= 0 => lastReq[k][c] - prevReq[k][c] >= TTL

\* C9: the fetch cache is keyed by the lookback: a call is never answered
\* with a table fetched for another lookback, and a call that follows a
\* call with the same lookback inside the window of that call's table gets
\* the same table.
C9_KeyedByLookback ==
  [][CallEnds =>
       /\ ~last'.raised => last'.table.years = last'.years
       /\ (/\ Done
           /\ ~last.raised
           /\ last.years = last'.years
           /\ now < last.table.at + TTL) =>
            (~last'.raised /\ last'.table = last.table)]_vars

\* C9 witness: with tables stored for both lookbacks, a call with lookback
\* 3 has been answered from the cache.
C9_Witness ==
  /\ Done
  /\ last.kind = "hit"
  /\ last.years = 3
  /\ 5 \in DOMAIN cache
  /\ cache[5] # NoTable
  /\ cache[3] # cache[5]
  /\ last.table = cache[3]

\* C10: of two cycles that call the cached function for one key
\* concurrently on a miss, only one fetches, and the one that waited gets
\* the table the other computed (unless that table has expired meanwhile).
C10_SingleFlight ==
  [][\A s \in Sessions :
       LET k == sess[s].key IN
       (/\ sess[s].pc = "waiting"
        /\ sess'[s].pc # "waiting"
        /\ ~(~lastDone[k].raised /\ now >= lastDone[k].table.at + TTL)) =>
          /\ sess'[s].pc = "idle"
          /\ last'.sid = s
          /\ last'.kind = "hit"
          /\ ~lastDone[k].raised
          /\ last'.table = lastDone[k].table]_vars

\* C11: in every script, each series code whose fetch raises in a fetch
\* batch gets a failure report that names the series, in that batch.
C11_FailureReported ==
  (Done /\ last.kind = "fetch") =>
     \A c \in last.F \cap Requested :
        \E r \in Reports : r[2] \in NamesOf(script, {c})

\* A script run starts in this step.
RunStarts == cycles' # cycles

\* C12: a script run with the API key empty halts before the Fred client is
\* constructed; it looks nothing up in the cache and requests no series.
C12_NoKeyNoFetch ==
  [][(RunStarts /\ api_key' = "") =>
       /\ ~fred'
       /\ UNCHANGED <<cache, lock, sess, last, lastReq, prevReq, lastDone>>]_vars

\* C12 witness: with a table in the cache, a run with the key empty has
\* halted.
C12_Witness ==
  /\ api_key = ""
  /\ ~fred
  /\ \E k \in DOMAIN cache : cache[k] # NoTable

RawAt(j, D) == Obs(script, source, j, D)
LastObs(j, D) ==
  LET P == {e \in 1..D : RawAt(j, e) # NaN}
  IN  IF P = {} THEN NaN ELSE RawAt(j, Max(P))
Aligned == stage # "raw"
Derived == stage \in {"derived", "simulated"}
DateOf(i) == raw_df[i].date
RowsDated(D) == {i \in 1..Len(raw_df) : DateOf(i) = D}

\* C14: for every index-type column of the CPI scripts and every row of the
\* processed table, YoY is (value / value dated 12 periods earlier - 1) * 100
\* also when observations are missing between the two dates, and is missing
\* exactly when there is no such base; 100 and 110 twelve periods apart
\* give 10.0.
C14_YoyTwelvePeriods ==
  (Derived /\ script \in CpiScripts) =>
     \A j \in 1..3 : ~IsDirect(script, j) =>
        \A i \in 1..Len(raw_df) :
           LET D == DateOf(i) IN
           /\ D <= 12 => df_yoy[j][i] = NaN
           /\ (D > 12 /\ RawAt(j, D) # NaN /\ RawAt(j, D - 12) # NaN) =>
                df_yoy[j][i] = {Pct(Val(RawAt(j, D)), Val(RawAt(j, D - 12)))}
           /\ (D > 12 /\ RawAt(j, D - 12) = NaN) => df_yoy[j][i] = NaN
           /\ (j = 1 /\ D = 13 /\ RawAt(1, 1) = {1000} /\ RawAt(1, 13) = {1100}) =>
                df_yoy[1][i] = {1000}

\* C15: a rate-type column appears in the output with the raw value of each
\* date unchanged, and has no MoM value (NaN in cpi_agent.py's MoM table;
\* cpi_agent_v2.1.py has no MoM table).
C15_RateColumnsCopied ==
  (Derived /\ script \in CpiScripts) =>
     /\ script # "cpi_agent" => df_mom = << >>
     /\ \A j \in 1..3 : CalcCols(script)[j] \in rate_cols =>
          \A i \in 1..Len(raw_df) :
             /\ df_yoy[j][i] = RawAt(j, DateOf(i))
             /\ script = "cpi_agent" => df_mom[j][i] = NaN

\* C15 witness: the processed table of a CPI script has a thirteenth row in
\* which the rate column holds a value.
C15_Witness ==
  /\ stage = "derived"
  /\ Len(raw_df) >= 13
  /\ CalcCols(script)[3] \in rate_cols
  /\ df_yoy[3][13] # NaN
  /\ df_yoy[3][1] # NaN

\* C16: in the aligned table of every script, a column without an
\* observation on a row's date holds the most recent observation of an
\* earlier date, and NaN only when there is none.
C16_ForwardFill ==
  Aligned =>
     \A i \in 1..Len(raw_df) : \A j \in ColsOf(script) :
        RawAt(j, DateOf(i)) = NaN => raw_df[i].v[j] = LastObs(j, DateOf(i))

\* C17: in the table handed to the derivation, a column that has had an
\* observation holds a value on every row dated at or after that
\* observation and the first valid date of the anchor.
C17_NoGapAfterFirstObservation ==
  Aligned =>
     \A i \in 1..Len(raw_df) : \A j \in ColsOf(script) :
        (LastObs(j, DateOf(i)) # NaN /\ LastObs(1, DateOf(i)) # NaN) =>
           raw_df[i].v[j] # NaN

\* The level before step i of a run of the simulator.
LevelBefore(r, i) == IF i = 1 THEN r.last ELSE r.steps[i - 1].level

\* C18: the simulator gives exactly 6 steps, the level of each step is the
\* level before it times (1 + rate), starting from the last level, and two
\* runs with the same last level, rate and base history give the same
\* levels and YoY values.
C18_CompoundedAndDetermined ==
  stage = "simulated" =>
     /\ Len(sim.steps) = 6
     /\ \A i \in 1..Len(sim.steps) :
          sim.steps[i].level = (LevelBefore(sim, i) * (1000 + sim.rate)) \div 1000
     /\ (prev_sim.last = sim.last /\ prev_sim.rate = sim.rate /\ prev_sim.base = sim.base) =>
          prev_sim.steps = sim.steps

\* C18 witness: the simulator has run twice with the slider at 0.2 %.
C18_Witness ==
  /\ stage = "simulated"
  /\ sim.rate = 2
  /\ prev_sim.rate = 2
  /\ prev_sim.last = sim.last
  /\ sim.steps[6].level > sim.steps[1].level
  /\ sim.steps[1].level > sim.last

\* C19: the projected YoY of step k (dated k periods after the latest row)
\* is computed against the level dated exactly 12 periods before the step's
\* own date.
C19_BaseTwelvePeriodsBefore ==
  stage = "simulated" =>
     \A k \in 1..Len(sim.steps) :
        LET D == DateOf(Len(raw_df)) + k - 12 IN
        \A i \in RowsDated(D) :
           sim.steps[k].yoy = {Pct(sim.steps[k].level, SimLevel(raw_df[i].v[1]))}

\* C20: for a history of any length, a step without a base row at its own
\* offset (row latest - 12 + step index, steps counted from 0) is NaN, and
\* a step with a value took its base from the row at its own offset.
C20_BaseAtOwnOffset ==
  stage = "simulated" =>
     \A k \in 1..Len(sim.steps) :
        LET own == Len(raw_df) - 12 + (k - 1) IN
        /\ own < 1 => sim.steps[k].yoy = NaN
        /\ sim.steps[k].yoy # NaN => sim.steps[k].pos = own

\* The dates of a table, and the rows of the merged table that the aligned
\* table no longer has.
DatesOf(t) == {t[i].date : i \in 1..Len(t)}
Removed(i) == merged_df[i].date \notin DatesOf(raw_df)

\* C21: a row of the merged table is removed exactly when its anchor is
\* missing after the forward fill (no observation of the anchor on or
\* before its date), a row with an anchor value is kept whatever its other
\* columns hold, and the removed rows are a leading prefix of the table.
C21_AnchorPrefixDropped ==
  Aligned =>
     /\ \A i \in 1..Len(merged_df) :
           Removed(i) <=> LastObs(1, merged_df[i].date) = NaN
     /\ \A i \in 1..Len(merged_df) :
           merged_df[i].v[1] # NaN => ~Removed(i)
     /\ \A i, k \in 1..Len(merged_df) : (i < k /\ Removed(k)) => Removed(i)

\* C22: before the anchor drop, the merged table of every script has
\* exactly one row for each date of the union of the indexes of the fetched
\* series, and no other row (the union does not depend on the fetch order).
C22_UnionOfIndexes ==
  Aligned =>
     /\ DatesOf(merged_df) = UNION {IndexOf(script, source, j) : j \in ColsOf(script)}
     /\ Len(merged_df) = Cardinality(DatesOf(merged_df))

\* C23: the table the cached function returns is the merged raw table: one
\* row per merged date (no row dropped), each cell what the Series Source
\* holds for that date (nothing filled).
C23_CachedTableRaw ==
  Aligned =>
     /\ Len(cached_df) = Len(merged_df)
     /\ \A i \in 1..Len(cached_df) :
           /\ i <= Len(merged_df) => cached_df[i].date = merged_df[i].date
           /\ \A j \in ColsOf(script) : cached_df[i].v[j] = RawAt(j, cached_df[i].date)

\* C25: each spread at row t is the difference of its two inputs at row t,
\* and is missing exactly when one of the inputs is missing at row t.
C25_SpreadRowwise ==
  Derived =>
     \A sp \in Spreads(script) : \A i \in 1..Len(raw_df) :
        LET x == SpreadInput(script, raw_df, df_yoy, sp.a)[i]
            y == SpreadInput(script, raw_df, df_yoy, sp.b)[i]
            z == derived[sp.name][i]
        IN  /\ z = NaN <=> (x = NaN \/ y = NaN)
            /\ z # NaN => Val(z) = Val(x) - Val(y)

\* C25 witness: 'Liquidity Stress' of rate_agent_v3.py is missing on the
\* first row, where an input is missing, and has a value on the last row.
C25_Witness ==
  /\ Derived
  /\ script = "rate_agent_v3"
  /\ Len(raw_df) >= 2
  /\ raw_df[1].v[4] = NaN
  /\ derived["Liquidity Stress"][1] = NaN
  /\ derived["Liquidity Stress"][Len(raw_df)] # NaN
  /\ derived["Curve 10Y-2Y"][Len(raw_df)] # NaN

\* C26: in rate_agent_v3.py every row of the aligned table is one trading
\* day, and Supercore YoY is the percentage change of the forward-filled
\* Supercore CPI Index against its value 252 rows earlier, missing on the
\* first 252 rows.
C26_SupercoreYoyTradingDays ==
  (Derived /\ script = "rate_agent_v3") =>
     \A i \in 1..Len(raw_df) :
        LET z == derived["Supercore YoY"][i] IN
        /\ ~Weekend(DateOf(i))
        /\ raw_df[i].v[3] = LastObs(3, DateOf(i))
        /\ i <= 252 => z = NaN
        /\ (i > 252 /\ raw_df[i].v[3] # NaN /\ raw_df[i - 252].v[3] # NaN) =>
              z = {Pct(Val(raw_df[i].v[3]), Val(raw_df[i - 252].v[3]))}

\* C29: in the rate scripts the prior-period row of the KPI deltas is the
\* aligned row dated exactly 7 calendar days before the latest row, and a
\* table of fewer than 7 rows ends in failure.
C29_PriorRowSevenDaysBefore ==
  (Derived /\ script \in RateScripts) =>
     /\ Len(raw_df) < 7 => board.status \in {"empty", "IndexError"}
     /\ board.status = "ok" => board.prev = board.latest - 7

\* ------------------------------------------------------------------------
\* Properties of the cache over render cycles (Spec)
\* ------------------------------------------------------------------------
\* Names of the columns the derivation adds.
DerivedColumns ==
  {"Net Liquidity", "Curve 10Y-2Y", "Liquidity Stress", "Supercore YoY",
   "Bank Reserves Trillions", "Profit Spread"}

\* C24: no stored table ever holds a derived column, also after cycles
\* that ran process_rates_data on the table they were handed, and a cache
\* hit returns the table as the function body returned it.
C24_DerivedNeverCached ==
  /\ \A k \in DOMAIN cache :
        cache[k] # NoTable =>
           /\ cache[k].cols \cap DerivedColumns = {}
           /\ Valid(k) => cache[k] = lastDone[k].table
  /\ (Done /\ last.kind = "hit") => last.table = lastDone[last.key].table

\* C24 witness: a cycle of rate_agent_v2.py or rate_agent_v3.py answered
\* from the cache has derived 'Net Liquidity' and 'Curve 10Y-2Y' from the
\* table it was handed.
C24_Witness ==
  /\ script \in {"rate_agent_v2", "rate_agent_v3"}
  /\ Done
  /\ last.kind = "hit"
  /\ HasFrame
  /\ {"Net Liquidity", "Curve 10Y-2Y"} \subseteq Frame.cols
  /\ InPlace(script, last.table) # last.table
  /\ cache[last.key] = last.table

\* The time of the latest fetch batch of key k (-1: none yet).
BatchAt(k) == Max({lastReq[k][c] : c \in Codes(script)})

\* C27: a fetch batch in which series failed stores its table; every call
\* with its key within 3600 seconds of a batch is answered with the stored
\* table and requests nothing; in rate_agent.py a cycle on a table without
\* the anchor ends in the failure outcome.
C27_PartialBatchCached ==
  [][CallEnds =>
       LET k == last'.key IN
       /\ (last'.kind = "fetch" /\ last'.F # {}) =>
            /\ cache'[k].at = now
            /\ cache'[k].cols = BatchCols(script, last'.F)
            /\ last'.table = cache'[k]
       /\ (BatchAt(k) >= 0 /\ now < BatchAt(k) + TTL) =>
            /\ last'.kind = "hit"
            /\ last'.table = cache[k]
            /\ lastReq' = lastReq
       /\ (script = "rate_agent" /\ ~last'.raised
             /\ AnchorName(script) \notin last'.table.cols) =>
            Render(script, last').status = "failed"]_vars

\* C28: a call inside the window of a table fetched with one credential,
\* in a run whose credential is another non-empty one, is answered with
\* that table and requests nothing.
C28_CredentialNotInKey ==
  [][CallEnds =>
       LET k == last'.key IN
       (Valid(k) /\ last'.cred # lastDone[k].cred /\ last'.cred # "") =>
          /\ last'.kind = "hit"
          /\ last'.table = lastDone[k].table
          /\ lastReq' = lastReq
          /\ lastDone' = lastDone]_vars

\* C28 witness: a cycle run with the credential 'other' was answered from
\* the cache with the table fetched with the credential 'key'.
C28_Witness ==
  /\ Done
  /\ last.kind = "hit"
  /\ last.cred = "other"
  /\ lastDone[last.key].cred = "key"
  /\ last.table = lastDone[last.key].table
  /\ last.table # NoTable
  /\ api_key = "other"

\* C30: process_rates_data of rate_agent_v2.py and rate_agent_v3.py leaves
\* the values of the input columns and the rows as they are: the frame
\* differs from the table only by added derived columns.
C30_InputsUntouched ==
  (HasFrame /\ script \in {"rate_agent_v2", "rate_agent_v3"}) =>
     /\ Frame.liq = last.table.liq
     /\ Frame.rows = last.table.rows
     /\ last.table.cols \subseteq Frame.cols
     /\ (Frame.cols \ last.table.cols) \subseteq DerivedColumns

\* C30 witness: a cycle of rate_agent_v3.py has computed 'Net Liquidity'
\* from the three liquidity columns of a table with rows.
C30_Witness ==
  /\ script = "rate_agent_v3"
  /\ HasFrame
  /\ Frame.rows > 0
  /\ Frame.netliq # {}
  /\ req_liq \subseteq last.table.cols
  /\ "Net Liquidity" \in Frame.cols \ last.table.cols

====
